---- MODULE Spec2Model ----
(***************************************************************************)
(* Model of clinica's ADNI AV45-PET path resolution                         *)
(* (adni_av45_pet.py, compute_av45_pet_paths): the fold over subjects and   *)
(* visits that selects one QC row per visit, matches it to a raw            *)
(* acquisition, prefers its co-registered averaged derivative, removes the  *)
(* known conversion errors and locates every image in the archive.          *)
(*                                                                          *)
(* Python strings that the code slices, lower-cases, searches or parses     *)
(* are tuples of one-character strings; strings that are only compared      *)
(* (visit codes, dates, Orig/Proc) are TLA+ strings.  A pandas DataFrame is *)
(* the sequence of its rows, in table order.                                *)
(***************************************************************************)
EXTENDS Integers, Sequences, FiniteSets, TLC

(***************************************************************************)
(* Bounds of the input tables.                                              *)
(***************************************************************************)
\* number of image ids that may have a row in PET_META_LIST.csv
MaxMeta == 2
\* number of image ids that may have a row in AV45QC.csv
MaxQC == 2
\* length of subjs_list
MaxSubjs == 2
\* QC rows of the one visit of the tie-break tables
TieImages == 3
\* series ids of the tie-break tables range over 1..TieSeries
TieSeries == 3

(***************************************************************************)
(* Python string primitives.                                                *)
(***************************************************************************)
DIGITS == <<"0", "1", "2", "3", "4", "5", "6", "7", "8", "9">>

UPPER == <<"A", "B", "C", "D", "E", "F", "G", "H", "I", "J", "K", "L", "M",
           "N", "O", "P", "Q", "R", "S", "T", "U", "V", "W", "X", "Y", "Z">>

LOWER == <<"a", "b", "c", "d", "e", "f", "g", "h", "i", "j", "k", "l", "m",
           "n", "o", "p", "q", "r", "s", "t", "u", "v", "w", "x", "y", "z">>

\* int(s) for a string of decimal digits
RECURSIVE int(_)
int(s) ==
    IF Len(s) = 0 THEN 0
    ELSE LET d == CHOOSE k \in 1..10 : DIGITS[k] = s[Len(s)]
         IN  10 * int(SubSeq(s, 1, Len(s) - 1)) + (d - 1)

\* str(n) for an integer n >= 0
RECURSIVE str(_)
str(n) ==
    IF n < 10 THEN <<DIGITS[n + 1]>>
    ELSE str(n \div 10) \o <<DIGITS[(n % 10) + 1]>>

\* c.lower() for every character of the tables
Characters ==
    {UPPER[k] : k \in 1..26} \cup {LOWER[k] : k \in 1..26} \cup {DIGITS[k] : k \in 1..10}
    \cup {" ", "/", ";", "*", "(", ")", "<", ">", ":", "_", "-", ",", "."}

lower_char ==
    [c \in Characters |->
        IF \E k \in 1..26 : UPPER[k] = c
        THEN LOWER[CHOOSE k \in 1..26 : UPPER[k] = c]
        ELSE c]

\* s.lower()
lower(s) == [k \in 1..Len(s) |-> lower_char[s[k]]]

\* s.find(sub): the lowest 0-based index where sub occurs in s, or -1
find(s, sub) ==
    LET hits == {i \in 1..(Len(s) - Len(sub) + 1) : SubSeq(s, i, i + Len(sub) - 1) = sub}
    IN  IF hits = {} THEN -1
        ELSE (CHOOSE i \in hits : \A j \in hits : i <= j) - 1

\* s.endswith(suffix)
endswith(s, suffix) ==
    /\ Len(s) >= Len(suffix)
    /\ SubSeq(s, Len(s) - Len(suffix) + 1, Len(s)) = suffix

\* s[-4:]
Last4(s) == SubSeq(s, IF Len(s) > 4 THEN Len(s) - 3 ELSE 1, Len(s))

\* s[1:]
From1(s) == SubSeq(s, 2, Len(s))

early == <<"e", "a", "r", "l", "y">>
av45 == <<"a", "v", "4", "5">>
nii == <<".", "n", "i", "i">>

\* the characters replace_sequence_chars turns into '_'
UnsafeChars == {" ", "/", ";", "*", "(", ")", "<", ">", ":"}

replace_sequence_chars(sequence_name) ==
    [i \in 1..Len(sequence_name) |->
        IF sequence_name[i] \in UnsafeChars THEN "_" ELSE sequence_name[i]]

(***************************************************************************)
(* The input tables.  Column names are those of the csv files; 'Image ID',  *)
(* 'Series ID', 'Scan Date', 'Study ID' and 'Orig/Proc' lose the characters *)
(* a TLA+ field name cannot hold.                                           *)
(***************************************************************************)
\* the subject of the known conversion error, and a second subject
Subj128 == <<"1", "2", "8", "_", "S", "_", "2", "2", "2", "0">>
Subj011 == <<"0", "1", "1", "_", "S", "_", "0", "0", "0", "2">>
Subjects == {Subj128, Subj011}

\* sequence names of PET_META_LIST.csv
SeqRaw == <<"R", "a", "w", " ", "A", "V", "4", "5">>
SeqEarly == <<"A", "V", "4", "5", " ", "E", "a", "r", "l", "y">>
SeqOther == <<"P", "E", "T", ":", " ", "R", "a", "w">>
SeqCoregAvg ==
    <<"A", "V", "4", "5", " ", "C", "o", "-", "r", "e", "g", "i", "s", "t", "e", "r",
      "e", "d", ",", " ", "A", "v", "e", "r", "a", "g", "e", "d">>

Date1 == "2012-01-01"
Date2 == "2013-02-02"

\* an acquisition and the images derived from it share a series and a scan date
DateOfSeries(series) == IF series = 1 THEN Date1 ELSE Date2

\* the series of the two dates
Series == {1, 2}

MetaRow(subject, image, series, sequence, origproc) ==
    [Subject |-> subject, ImageID |-> image, SeriesID |-> series,
     Sequence |-> sequence, OrigProc |-> origproc,
     ScanDate |-> DateOfSeries(series), StudyID |-> 100 + series,
     Visit |-> "ADNI2 Visit"]

QCRow(rid, viscode, pass, image, examdate) ==
    [RID |-> rid, VISCODE2 |-> viscode, PASS |-> pass,
     LONIUID |-> <<"I">> \o str(image), EXAMDATE |-> examdate]

\* what PET_META_LIST.csv may hold for image id i of subject 128_S_2220:
\* nothing, or one row
MetaChoices(i) ==
    {<<>>}
    \cup {<<MetaRow(Subj128, i, series, SeqRaw, "Original")>> : series \in Series}
    \cup {<<MetaRow(Subj128, i, series, SeqCoregAvg, "Processed")>> : series \in Series}
    \cup {<<MetaRow(Subj128, i, 1, SeqEarly, "Original")>>,
          <<MetaRow(Subj128, i, 1, SeqOther, "Original")>>}

\* what AV45QC.csv may hold for image id i of subject 128_S_2220: nothing, or
\* a passed row of one of two visits, each with its exam date
QCChoices(i) ==
    {<<>>,
     <<QCRow(2220, "bl", 1, i, Date1)>>,
     <<QCRow(2220, "m48", 1, i, Date2)>>}

\* rows every table holds: the other subject's scan, and a failed QC row
FixedMeta == <<MetaRow(Subj011, 12, 1, SeqRaw, "Original")>>
FixedQC == <<QCRow(2220, "bl", 0, 1, Date1), QCRow(2, "bl", 1, 12, Date1)>>

RECURSIVE MetaTables(_)
MetaTables(n) ==
    IF n = 0 THEN {FixedMeta}
    ELSE {t \o c : t \in MetaTables(n - 1), c \in MetaChoices(n)}

RECURSIVE QCTables(_)
QCTables(n) ==
    IF n = 0 THEN {FixedQC}
    ELSE {t \o c : t \in QCTables(n - 1), c \in QCChoices(n)}

\* the lists of MaxSubjs subjects, a subject listed more than once included
SubjLists == [1..MaxSubjs -> Subjects]

(***************************************************************************)
(* The tables of one visit with several passed QC rows: every image id of   *)
(* 1..TieImages has a passed QC row of visit 'bl' of subject 128_S_2220,    *)
(* and no metadata row, or the row of a raw acquisition or of an averaged    *)
(* image of some series, or the row of an early-frame acquisition; every    *)
(* series may have one more co-registered averaged image.                   *)
(***************************************************************************)
TieQC == [k \in 1..TieImages |-> QCRow(2220, "bl", 1, k, Date1)]

TieChoices(k) ==
    {<<>>, <<MetaRow(Subj128, k, 1, SeqEarly, "Original")>>}
    \cup {<<MetaRow(Subj128, k, series, SeqRaw, "Original")>> : series \in 1..TieSeries}
    \cup {<<MetaRow(Subj128, k, series, SeqCoregAvg, "Processed")>> : series \in 1..TieSeries}

TieDerived(series) ==
    {<<>>, <<MetaRow(Subj128, 20 + series, series, SeqCoregAvg, "Processed")>>}

RECURSIVE TieRaw(_)
TieRaw(n) ==
    IF n = 0 THEN {<<>>}
    ELSE {t \o c : t \in TieRaw(n - 1), c \in TieChoices(n)}

RECURSIVE TieMeta(_)
TieMeta(n) ==
    IF n = 0 THEN TieRaw(TieImages)
    ELSE {t \o c : t \in TieMeta(n - 1), c \in TieDerived(n)}

(***************************************************************************)
(* State.                                                                   *)
(***************************************************************************)
VARIABLES
    petqc,              \* AV45QC.csv
    pet_meta_list,      \* PET_META_LIST.csv
    subjs_list,         \* the subjects to convert
    archive,            \* what the walk of source_dir has shown so far
    pc,                 \* "subject", "visit", "match", "locate", "done" or "raised"
    s,                  \* position of the subject loop in subjs_list
    visits,             \* visits of the current subject still to process
    last,               \* the step taken last
    pet_qc_visit,       \* locals of the visit loop body
    normal_images,
    normal_meta,
    qc_visit,
    original_pet_meta,
    averaged_pet_meta,
    pet_av45_df,        \* the manifest under assembly
    indices_to_remove,  \* the positions dropped as known conversion errors
    i,                  \* position of the archive loop in images
    is_dicom,
    image_folders,
    images,             \* the returned dataframe, written to av45_pet_paths.tsv
    out,                \* the messages given to cprint
    count,              \* the rows av45_pet_paths_to_bids has gone through
    converted,          \* the conversion steps it has taken, row by row
    run,                \* the number of the run of compute_av45_pet_paths
    previous,           \* the dataframe the run before returned
    self,               \* the Pipeline object of engine.py
    stack,              \* the methods of the Pipeline under execution, outermost first
    at,                 \* the statement the innermost method is at
    calls,              \* the calls made since the outermost method was entered
    ncalls,             \* the number of calls user code has made on the Pipeline
    ended               \* how the last of them ended: "returned" or "raised"

inputs == <<petqc, pet_meta_list, subjs_list>>
locals == <<pet_qc_visit, normal_images, normal_meta, qc_visit,
            original_pet_meta, averaged_pet_meta>>
located == <<is_dicom, image_folders, images>>
\* the state of the callers of compute_av45_pet_paths
caller == <<count, converted, run, previous>>
\* the Pipeline and its execution
engine == <<self, stack, at, calls, ncalls, ended>>
vars == <<inputs, archive, pc, s, visits, last, locals, pet_av45_df, indices_to_remove,
          i, located, out, caller, engine>>

(***************************************************************************)
(* The Pipeline object of engine.py: its attributes, the fields its class   *)
(* lists for the input and the output node, and the edges of the graph of   *)
(* its Workflow.                                                            *)
(***************************************************************************)
None == "None"

\* what get_input_fields and get_output_fields of a pipeline class return
Fields == {<<>>, <<"image">>}

\* the dictionaries assigned to parameters
Parameters == {{<<"wd", "a">>}, {<<"wd", "b">>}}

\* lines 167-193: the nodes of the fields, in the graph of a new Workflow
init_nodes(obj) ==
    [obj EXCEPT !.input_node = IF obj.get_input_fields # <<>> THEN "Input" ELSE None,
                !.output_node = IF obj.get_output_fields # <<>> THEN "Output" ELSE None,
                !.graph = {}]

\* lines 114-165: Pipeline.__init__
Pipeline(input_fields, output_fields) ==
    init_nodes([is_built |-> FALSE, parameters |-> {},
                get_input_fields |-> input_fields, get_output_fields |-> output_fields,
                input_node |-> None, output_node |-> None, graph |-> {}])

\* nothing is under execution on the Pipeline
Idle ==
    /\ stack = <<>>
    /\ at = "idle"
    /\ calls = <<>>
    /\ ncalls = 0
    /\ ended = "none"

\* a Pipeline of the class with these fields, on which nothing was called
Constructed(input_fields, output_fields) ==
    /\ self = Pipeline(input_fields, output_fields)
    /\ Idle

\* the converters of ADNI make no Pipeline
NoPipeline ==
    /\ self = None
    /\ Idle

Start ==
    /\ archive = {}
    /\ pc = "subject"
    /\ s = 1
    /\ visits = <<>>
    /\ last = "init"
    /\ pet_qc_visit = <<>>
    /\ normal_images = <<>>
    /\ normal_meta = <<>>
    /\ qc_visit = <<>>
    /\ original_pet_meta = <<>>
    /\ averaged_pet_meta = <<>>
    /\ pet_av45_df = <<>>
    /\ indices_to_remove = {}
    /\ i = 1
    /\ is_dicom = <<>>
    /\ image_folders = <<>>
    /\ images = <<>>
    /\ out = <<>>
    /\ count = 0
    /\ converted = <<>>
    /\ run = 1
    /\ previous = <<>>

Init ==
    /\ petqc \in QCTables(MaxQC)
    /\ pet_meta_list \in MetaTables(MaxMeta)
    /\ subjs_list \in SubjLists
    /\ Start
    /\ NoPipeline

InitTie ==
    /\ petqc = TieQC
    /\ pet_meta_list \in TieMeta(TieSeries)
    /\ subjs_list = <<Subj128>>
    /\ Start
    /\ NoPipeline

\* the pipelines of every class, before a conversion has started
InitPipeline ==
    /\ petqc = FixedQC
    /\ pet_meta_list = FixedMeta
    /\ subjs_list = [k \in 1..MaxSubjs |-> Subj011]
    /\ Start
    /\ \E input_fields \in Fields, output_fields \in Fields :
           Constructed(input_fields, output_fields)

(***************************************************************************)
(* The body of the loops over subjects and visits.                          *)
(***************************************************************************)
\* the search for 'early' without .lower()
NotEarlyCaseSensitive(sequence) == find(sequence, early) < 0

NotEarly(sequence) == find(lower(sequence), early) < 0

\* petqc[(petqc.PASS == 1) & (petqc.RID == int(subj[-4:]))]
pet_qc_subj(subj) ==
    LET rid == int(Last4(subj))
        Test(r) == r.PASS = 1 /\ r.RID = rid
    IN  SelectSeq(petqc, Test)

\* the metadata table without the selection of the subject
all_pet_meta(subject) == pet_meta_list

\* pet_meta_list[pet_meta_list['Subject'] == subj]
subject_pet_meta(subj) ==
    LET Test(r) == r.Subject = subj
    IN  SelectSeq(pet_meta_list, Test)

\* numpy.unique(column): the values in ascending order
unique_sorted(col) ==
    LET Listed(code) == \E k \in 1..Len(col) : col[k] = code
    IN  SelectSeq(<<"bl", "m48">>, Listed)

\* list(column.unique()): the values in the order of their first occurrence
RECURSIVE unique(_)
unique(col) ==
    IF col = <<>> THEN <<>>
    ELSE LET front == SubSeq(col, 1, Len(col) - 1)
             x == col[Len(col)]
         IN  IF \E k \in 1..Len(front) : front[k] = x
             THEN unique(front)
             ELSE unique(front) \o <<x>>

subject_visits(subj) ==
    LET qc == pet_qc_subj(subj)
    IN  unique([k \in 1..Len(qc) |-> qc[k].VISCODE2])

\* pet_qc_subj[pet_qc_subj.VISCODE2 == visit]
qc_of_visit(subj, visit) ==
    LET Test(r) == r.VISCODE2 = visit
    IN  SelectSeq(pet_qc_subj(subj), Test)

\* subject_pet_meta[subject_pet_meta['Image ID'] == int(image.LONIUID[1:])]
meta_of_image(meta, image) ==
    LET image_id == int(From1(image.LONIUID))
        Test(r) == r.ImageID = image_id
    IN  SelectSeq(meta, Test)

\* the QC rows of the visit whose .iloc[0] raises IndexError
unmatched(meta, qc) == {k \in 1..Len(qc) : meta_of_image(meta, qc[k]) = <<>>}

\* the QC rows of the visit whose metadata row is not an early-frame sequence
regular(meta, qc) ==
    LET Test(image) ==
            /\ meta_of_image(meta, image) # <<>>
            /\ NotEarly(Head(meta_of_image(meta, image)).Sequence)
    IN  SelectSeq(qc, Test)

meta_of_images(meta, imgs) ==
    [k \in 1..Len(imgs) |-> Head(meta_of_image(meta, imgs[k]))]

\* numpy.argsort: the positions of xs in ascending order of value, equal
\* values in the order of their positions
argsort(xs) ==
    LET before(a, b) == xs[a] < xs[b] \/ (xs[a] = xs[b] /\ a < b)
        rank(a) == Cardinality({b \in 1..Len(xs) : before(b, a)}) + 1
    IN  [p \in 1..Len(xs) |-> CHOOSE a \in 1..Len(xs) : rank(a) = p]

\* index[::-1]
reversed(index) == [p \in 1..Len(index) |-> index[Len(index) + 1 - p]]

\* the rows of the subject with the sequence 'AV45 Co-registered, Averaged'
\* and the given series
coreg_avg(meta, series) ==
    LET Test(r) == r.Sequence = SeqCoregAvg /\ r.SeriesID = series
    IN  SelectSeq(meta, Test)

\* the candidates tried from the lowest series id upward
scan_ascending(index) == index

\* the order in which the candidates are tried
scan_order(index) == reversed(index)

\* the candidate of the lowest series id
fallback_first(imgs, index) == imgs[index[1]]

\* the candidate kept when no candidate has a co-registered averaged image
fallback(imgs, index) == imgs[index[Len(index)]]

\* the choice among several regular images of one visit
tie_break(meta, imgs, metas) ==
    LET index == argsort([k \in 1..Len(metas) |-> metas[k].SeriesID])
        order == scan_order(index)
        hits == {p \in 1..Len(order) : coreg_avg(meta, metas[order[p]].SeriesID) # <<>>}
    IN  IF hits # {}
        THEN imgs[order[CHOOSE p \in hits : \A q \in hits : p <= q]]
        ELSE fallback(imgs, index)

\* the 'Original' row of the image, not an early-frame sequence
match_image_id(meta, image) ==
    LET int_image_id == int(From1(image.LONIUID))
        Test(r) ==
            /\ r.OrigProc = "Original"
            /\ r.ImageID = int_image_id
            /\ NotEarly(r.Sequence)
    IN  SelectSeq(meta, Test)

\* the 'Original' AV45 rows of any date
match_any_date(meta, image) ==
    LET Test(r) ==
            /\ r.OrigProc = "Original"
            /\ find(lower(r.Sequence), av45) > -1
            /\ find(lower(r.Sequence), early) < 0
    IN  SelectSeq(meta, Test)

\* the 'Original' AV45 rows of the exam date, not early-frame sequences
match_scan_date(meta, image) ==
    LET Test(r) ==
            /\ r.OrigProc = "Original"
            /\ find(lower(r.Sequence), av45) > -1
            /\ NotEarly(r.Sequence)
            /\ r.ScanDate = image.EXAMDATE
    IN  SelectSeq(meta, Test)

match_original(meta, image) ==
    IF Len(match_image_id(meta, image)) < 1
    THEN match_scan_date(meta, image)
    ELSE match_image_id(meta, image)

\* the raw acquisition, whether it has an averaged image or not
sel_original(original_image, averaged) == original_image

\* the image converted: the averaged image of the series if there is one
sel_image(original_image, averaged) ==
    IF Len(averaged) < 1 THEN original_image ELSE Head(averaged)

row_to_append(subj, image, sel, original) ==
    [Subject_ID |-> subj, VISCODE |-> image.VISCODE2, Visit |-> sel.Visit,
     Sequence |-> replace_sequence_chars(sel.Sequence), Scan_Date |-> sel.ScanDate,
     Study_ID |-> str(sel.StudyID), Series_ID |-> str(sel.SeriesID),
     Image_ID |-> str(sel.ImageID), Original |-> original]

(***************************************************************************)
(* The loop over subjects, lines 79-87.                                     *)
(***************************************************************************)
subj == subjs_list[s]

\* what follows the last visit of a subject: the next subject
NextVisit(rest) ==
    /\ visits' = rest
    /\ pc' = IF rest = <<>> THEN "subject" ELSE "visit"
    /\ s' = IF rest = <<>> THEN s + 1 ELSE s

\* a subject without metadata rows is skipped
SubjectNoScreening ==
    /\ pc = "subject"
    /\ s <= Len(subjs_list)
    /\ Len(subject_pet_meta(subj)) < 1
    /\ out' = Append(out, [text |-> "NO Screening: Subject - ", subject |-> subj])
    /\ s' = s + 1
    /\ last' = "SubjectNoScreening"
    /\ UNCHANGED <<inputs, engine, caller, archive, pc, visits, locals, pet_av45_df, indices_to_remove,
                   i, located>>

\* a subject with metadata rows: its visits are those of its passed QC rows
SubjectVisits ==
    /\ pc = "subject"
    /\ s <= Len(subjs_list)
    /\ Len(subject_pet_meta(subj)) >= 1
    /\ NextVisit(subject_visits(subj))
    /\ last' = "SubjectVisits"
    /\ UNCHANGED <<inputs, engine, caller, archive, locals, pet_av45_df, indices_to_remove, i, located, out>>

(***************************************************************************)
(* The loop over the visits of a subject, lines 87-155, in two steps: the   *)
(* choice of one QC row of the visit, then the match of the raw acquisition *)
(* and the row of the manifest.                                             *)
(***************************************************************************)
\* line 95: a QC row of a visit with several rows has no metadata row
VisitIndexError ==
    /\ pc = "visit"
    /\ \E meta \in {subject_pet_meta(subj)}, qc \in {qc_of_visit(subj, Head(visits))} :
           /\ Len(qc) > 1
           /\ unmatched(meta, qc) # {}
           /\ pet_qc_visit' = qc
    /\ pc' = "raised"
    /\ last' = "VisitIndexError"
    /\ UNCHANGED <<inputs, engine, caller, archive, s, visits, normal_images, normal_meta, qc_visit,
                   original_pet_meta, averaged_pet_meta, pet_av45_df, indices_to_remove,
                   i, located, out>>

\* lines 88-102: every QC row of the visit is an early-frame image
VisitNoRegular ==
    /\ pc = "visit"
    /\ \E meta \in {subject_pet_meta(subj)}, qc \in {qc_of_visit(subj, Head(visits))} :
           /\ Len(qc) > 1
           /\ unmatched(meta, qc) = {}
           /\ Len(regular(meta, qc)) = 0
           /\ pet_qc_visit' = qc
           /\ normal_images' = <<>>
           /\ normal_meta' = <<>>
    /\ out' = Append(out, [text |-> "No regular AV45-PET image: Subject - ",
                           subject |-> subj, visit |-> Head(visits)])
    /\ NextVisit(Tail(visits))
    /\ last' = "VisitNoRegular"
    /\ UNCHANGED <<inputs, engine, caller, archive, qc_visit, original_pet_meta, averaged_pet_meta,
                   pet_av45_df, indices_to_remove, i, located>>

\* lines 88-119: the QC row of the visit, the only one or the one chosen among
\* the regular ones
VisitSelect ==
    /\ pc = "visit"
    /\ \E meta \in {subject_pet_meta(subj)}, qc \in {qc_of_visit(subj, Head(visits))} :
           /\ Len(qc) > 1 => unmatched(meta, qc) = {}
           /\ pet_qc_visit' = qc
           /\ \E imgs \in {IF Len(qc) > 1 THEN regular(meta, qc) ELSE normal_images} :
              \E metas \in {IF Len(qc) > 1 THEN meta_of_images(meta, imgs) ELSE normal_meta} :
                  /\ Len(qc) > 1 => Len(imgs) > 0
                  /\ normal_images' = imgs
                  /\ normal_meta' = metas
                  /\ qc_visit' =
                         IF Len(qc) <= 1 THEN <<qc[1]>>
                         ELSE IF Len(imgs) = 1 THEN <<imgs[1]>>
                         ELSE <<tie_break(meta, imgs, metas)>>
    /\ pc' = "match"
    /\ last' = "VisitSelect"
    /\ UNCHANGED <<inputs, engine, caller, archive, s, visits, original_pet_meta, averaged_pet_meta,
                   pet_av45_df, indices_to_remove, i, located, out>>

\* lines 120-134: the selected QC row has no original acquisition
VisitNoOriginal ==
    /\ pc = "match"
    /\ \E orig \in {match_original(subject_pet_meta(subj), qc_visit[1])} :
           /\ Len(orig) < 1
           /\ original_pet_meta' = orig
    /\ out' = Append(out, [text |-> "NO Screening: Subject - ",
                           subject |-> subj, visit |-> qc_visit[1].VISCODE2])
    /\ NextVisit(Tail(visits))
    /\ last' = "VisitNoOriginal"
    /\ UNCHANGED <<inputs, engine, caller, archive, pet_qc_visit, normal_images, normal_meta, qc_visit,
                   averaged_pet_meta, pet_av45_df, indices_to_remove, i, located>>

\* lines 120-155: the visit gives one row of the manifest
VisitAppend ==
    /\ pc = "match"
    /\ \E meta \in {subject_pet_meta(subj)} :
       \E orig \in {match_original(meta, qc_visit[1])} :
           /\ Len(orig) >= 1
           /\ original_pet_meta' = orig
           /\ \E averaged \in {coreg_avg(meta, orig[1].SeriesID)} :
                  /\ averaged_pet_meta' = averaged
                  /\ pet_av45_df' =
                         Append(pet_av45_df,
                                row_to_append(subj, qc_visit[1], sel_image(orig[1], averaged),
                                              Len(averaged) < 1))
    /\ NextVisit(Tail(visits))
    /\ last' = "VisitAppend"
    /\ UNCHANGED <<inputs, engine, caller, archive, pet_qc_visit, normal_images, normal_meta, qc_visit,
                   indices_to_remove, i, located, out>>

(***************************************************************************)
(* The known conversion errors, lines 157-168.                              *)
(***************************************************************************)
conversion_errors == {<<Subj128, "m48">>}

\* the rows of the subjects of the list, whatever their visit
error_indices_subject(df) ==
    {k \in 1..Len(df) : \E conv_error \in conversion_errors : df[k].Subject_ID = conv_error[1]}

\* pet_av45_df.index[reduce(operator.or_, error_indices, False)]
error_indices(df) ==
    {k \in 1..Len(df) :
        \E conv_error \in conversion_errors :
            df[k].Subject_ID = conv_error[1] /\ df[k].VISCODE = conv_error[2]}

\* drop without inplace=True leaves the dataframe as it is
drop_copy(df, indices) == df

\* pet_av45_df.drop(indices_to_remove, inplace=True)
drop(df, indices) ==
    LET kept == {k \in 1..Len(df) : k \notin indices}
        nth(n) == CHOOSE k \in kept : Cardinality({j \in kept : j < k}) = n - 1
    IN  [n \in 1..Cardinality(kept) |-> df[nth(n)]]

\* lines 205-206: the columns Is_Dicom and Path
with_paths(df, dicoms, folders) ==
    [k \in 1..Len(df) |->
        [Subject_ID |-> df[k].Subject_ID, VISCODE |-> df[k].VISCODE,
         Visit |-> df[k].Visit, Sequence |-> df[k].Sequence,
         Scan_Date |-> df[k].Scan_Date, Study_ID |-> df[k].Study_ID,
         Series_ID |-> df[k].Series_ID, Image_ID |-> df[k].Image_ID,
         Original |-> df[k].Original, Is_Dicom |-> dicoms[k], Path |-> folders[k]]]

\* the manifest without the rows that have no path
write_resolved(df, dicoms, folders) ==
    LET Found(r) == r.Path # <<>>
    IN  SelectSeq(with_paths(df, dicoms, folders), Found)

\* lines 205-212: the manifest that is written and returned
write(df, dicoms, folders) == with_paths(df, dicoms, folders)

\* once the archive loop is over, the manifest is written and the run is done
Write(df, dicoms, folders) ==
    IF Len(folders) = Len(df)
    THEN images' = write(df, dicoms, folders) /\ pc' = "done"
    ELSE pc' = "locate" /\ UNCHANGED images

Exceptions ==
    /\ pc = "subject"
    /\ s > Len(subjs_list)
    /\ indices_to_remove' = error_indices(pet_av45_df)
    /\ \E df \in {drop(pet_av45_df, error_indices(pet_av45_df))} :
           /\ pet_av45_df' = df
           /\ Write(df, is_dicom, image_folders)
    /\ last' = "Exceptions"
    /\ UNCHANGED <<inputs, engine, caller, archive, s, visits, locals, i, is_dicom, image_folders, out>>

(***************************************************************************)
(* The walk of the archive, lines 173-206.  A path is the sequence of its   *)
(* components, '' the empty one.  What source_dir holds for an image is     *)
(* fixed when the walk first looks for it.                                  *)
(***************************************************************************)
source_dir == <<"A", "D", "N", "I">>
NiftiFile == <<"p", "e", "t", ".", "n", "i", "i">>

DicomFile == <<"1", ".", "d", "c", "m">>

\* the files of the directory of an image
filenames(kind) ==
    IF kind = "nifti" THEN <<DicomFile, NiftiFile>>
    ELSE IF kind = "dicom" THEN <<DicomFile>>
    ELSE <<>>

\* the files the walk of lines 193-198 stops at
nii_files(files) ==
    LET Test(f) == endswith(f, nii)
    IN  SelectSeq(files, Test)

\* what the walk finds in the directory of an image, by what the directory holds
walked == [kind \in {"dicom", "nifti"} |-> nii_files(filenames(kind))]

\* lines 192-196: dicom stays True unless a file ends with '.nii'
dicom_of(found) == found = <<>>

\* the directory of the image, whatever it holds
found_dir(image_path, found) == image_path

\* lines 186 and 197: the directory of the image, or the '.nii' file in it
found_path(image_path, found) ==
    IF found = <<>> THEN image_path ELSE Append(image_path, Head(found))

seq_path(image) == <<source_dir, image.Subject_ID, image.Sequence>>

image_dir(image) == <<"I">> \o image.Image_ID

\* the archive holds `kind` at the place of the image
Holds(image, kind) ==
    LET known == {e \in archive : e.path = seq_path(image) /\ e.dir = image_dir(image)}
    IN  /\ \A e \in known : e.kind = kind
        /\ archive' = archive \cup
               {[path |-> seq_path(image), dir |-> image_dir(image), kind |-> kind]}

Located(dicom, image_path, step) ==
    /\ is_dicom' = Append(is_dicom, dicom)
    /\ image_folders' = Append(image_folders, image_path)
    /\ Write(pet_av45_df, Append(is_dicom, dicom), Append(image_folders, image_path))
    /\ i' = i + 1
    /\ last' = step
    /\ UNCHANGED <<inputs, engine, caller, s, visits, locals, pet_av45_df, indices_to_remove>>

\* no directory 'I' + Image_ID under seq_path
LocateNotFound ==
    /\ pc = "locate"
    /\ i <= Len(pet_av45_df)
    /\ Holds(pet_av45_df[i], "nothing")
    /\ out' = Append(out, [text |-> "Not found ", subject |-> pet_av45_df[i].Subject_ID])
    /\ Located(TRUE, <<>>, "LocateNotFound")

\* the directory of the image holds no .nii file
LocateDicom ==
    /\ pc = "locate"
    /\ i <= Len(pet_av45_df)
    /\ Holds(pet_av45_df[i], "dicom")
    /\ out' = out
    /\ Located(dicom_of(walked["dicom"]),
               found_path(Append(seq_path(pet_av45_df[i]), image_dir(pet_av45_df[i])),
                          walked["dicom"]),
               "LocateDicom")

\* the directory of the image holds a .nii file
LocateNifti ==
    /\ pc = "locate"
    /\ i <= Len(pet_av45_df)
    /\ Holds(pet_av45_df[i], "nifti")
    /\ out' = out
    /\ Located(dicom_of(walked["nifti"]),
               found_path(Append(seq_path(pet_av45_df[i]), image_dir(pet_av45_df[i])),
                          walked["nifti"]),
               "LocateNifti")

Next ==
    \/ SubjectNoScreening
    \/ SubjectVisits
    \/ VisitIndexError
    \/ VisitNoRegular
    \/ VisitSelect
    \/ VisitNoOriginal
    \/ VisitAppend
    \/ Exceptions
    \/ LocateNotFound
    \/ LocateDicom
    \/ LocateNifti

Spec == Init /\ [][Next]_vars

\* the runs over the tables of one visit with several passed QC rows
SpecTie == InitTie /\ [][Next]_vars

(***************************************************************************)
(* av45_pet_paths_to_bids, lines 215-300, on the dataframe that             *)
(* compute_av45_pet_paths returned (convert_adni_av45_pet, lines 38-40).    *)
(***************************************************************************)
\* numpy's nan: a float, which no path of the dataframe is
nan == <<"nan">>

\* value is nan
is_nan(value) == value = nan

\* what the DICOM converters leave in the output directory: the file of
\* dcm2niix, the file of dcm2nii after dcm2niix gave none, or no file
Outcomes == {"dcm2niix", "dcm2nii", "none"}

\* lines 240-298: the steps taken for one row of the dataframe
conversion(image, outcome) ==
    IF is_nan(image.Path) THEN <<>>
    ELSE IF ~image.Is_Dicom THEN <<"center_nifti_origin">>
    ELSE <<"check_two_dcm_folder", "dcm2niix">> \o
         (IF outcome = "dcm2niix" THEN <<"center_nifti_origin">>
          ELSE IF outcome = "dcm2nii" THEN <<"dcm2nii", "center_nifti_origin">>
          ELSE <<"dcm2nii">>)

\* lines 235-298: one round of the loop over the rows
PathsToBidsRow ==
    /\ pc = "done"
    /\ count < Len(images)
    /\ count' = count + 1
    /\ \E image \in {images[count + 1]}, outcome \in Outcomes :
           /\ converted' = Append(converted, conversion(image, outcome))
           /\ out' = Append(out, [text |-> IF is_nan(image.Path)
                                           THEN "No path specified for "
                                           ELSE "Processing subject ",
                                  subject |-> image.Subject_ID, visit |-> image.VISCODE])
    /\ last' = "PathsToBidsRow"
    /\ UNCHANGED <<inputs, engine, archive, pc, s, visits, locals, pet_av45_df, indices_to_remove,
                   i, located, run, previous>>

\* line 300: the loop is over
PathsToBidsEnd ==
    /\ pc = "done"
    /\ count = Len(images)
    /\ pc' = "converted"
    /\ last' = "PathsToBidsEnd"
    /\ UNCHANGED <<inputs, engine, archive, s, visits, locals, pet_av45_df, indices_to_remove,
                   i, located, out, caller>>

NextConvert ==
    \/ Next
    \/ PathsToBidsRow
    \/ PathsToBidsEnd

\* convert_adni_av45_pet: the paths are computed, then the images converted
SpecConvert == Init /\ [][NextConvert]_vars

(***************************************************************************)
(* A second call of compute_av45_pet_paths on the same tables and the same  *)
(* archive: lines 58-77 start it from fresh locals.                         *)
(***************************************************************************)
\* the dataframe the call before left
old_frame == pet_av45_df

\* line 73: pd.DataFrame(columns=pet_av45_col)
new_frame == <<>>

Rerun ==
    /\ pc = "done"
    /\ run = 1
    /\ run' = run + 1
    /\ previous' = images
    /\ pet_av45_df' = new_frame
    /\ pc' = "subject"
    /\ s' = 1
    /\ visits' = <<>>
    /\ pet_qc_visit' = <<>>
    /\ normal_images' = <<>>
    /\ normal_meta' = <<>>
    /\ qc_visit' = <<>>
    /\ original_pet_meta' = <<>>
    /\ averaged_pet_meta' = <<>>
    /\ indices_to_remove' = {}
    /\ i' = 1
    /\ is_dicom' = <<>>
    /\ image_folders' = <<>>
    /\ images' = <<>>
    /\ out' = <<>>
    /\ last' = "Rerun"
    /\ UNCHANGED <<inputs, engine, archive, count, converted>>

NextRerun ==
    \/ Next
    \/ Rerun

\* the runs over the list of the two subjects
InitRerun ==
    /\ petqc \in QCTables(MaxQC)
    /\ pet_meta_list \in MetaTables(MaxMeta)
    /\ subjs_list = <<Subj128, Subj011>>
    /\ Start
    /\ NoPipeline

SpecRerun == InitRerun /\ [][NextRerun]_vars

(***************************************************************************)
(* Pipeline.build, Pipeline.run and the setter of Pipeline.parameters       *)
(* (engine.py), a statement at a time.  The calls on the Pipeline come from *)
(* user code, one after the other; the methods a pipeline class defines     *)
(* (check_dependencies' custom part, build_input_node, build_core_nodes,    *)
(* build_output_node) and check_size and Workflow.run may raise.            *)
(***************************************************************************)
\* the number of calls user code makes on the Pipeline
MaxCalls == 3

\* what compute_av45_pet_paths and its callers work on
converter == <<inputs, archive, pc, s, visits, last, locals, pet_av45_df,
               indices_to_remove, i, located, out, caller>>

\* lines 195-204
has_input_connections(obj) ==
    IF obj.input_node # None
    THEN Cardinality({e \in obj.graph : e[2] = obj.input_node}) > 0
    ELSE FALSE

\* lines 206-215
has_output_connections(obj) ==
    IF obj.output_node # None
    THEN Cardinality({e \in obj.graph : e[1] = obj.output_node}) > 0
    ELSE FALSE

\* a call, and the state of the Pipeline it is made in
event(name) ==
    [name |-> name, is_built |-> self.is_built,
     input_connections |-> has_input_connections(self),
     output_connections |-> has_output_connections(self)]

\* the test of line 231 passed whatever is_built is
always(obj) == TRUE

\* line 231: if not self.is_built
not_built(obj) == ~obj.is_built

\* the assignment of line 480 alone
parameters_only(obj, value) == [obj EXCEPT !.parameters = value]

\* lines 478-483: the setter of parameters
parameters_setter(obj, value) ==
    init_nodes([obj EXCEPT !.parameters = value, !.is_built = FALSE])

\* the edges user code may add with Workflow.connect: into the input node,
\* out of the output node
user_edges(obj) ==
    {<<"Upstream", obj.input_node>> : n \in {obj.input_node} \ {None}}
    \cup {<<obj.output_node, "Downstream">> : n \in {obj.output_node} \ {None}}

\* the graphs build_core_nodes of a pipeline class may leave: the core
\* connected to the nodes, the output node connected to a writer or not
core_graphs(obj) ==
    LET core == {<<obj.input_node, "Core">> : n \in {obj.input_node} \ {None}}
                \cup {<<"Core", obj.output_node>> : n \in {obj.output_node} \ {None}}
        writer == {<<obj.output_node, "Writer">> : n \in {obj.output_node} \ {None}}
    IN  {obj.graph \cup core, obj.graph \cup core \cup writer}

\* an exception leaves every method under execution
Raise ==
    /\ stack' = <<>>
    /\ at' = "idle"
    /\ ended' = "raised"

\* user code calls build()
CallBuild ==
    /\ stack = <<>>
    /\ ncalls < MaxCalls
    /\ ncalls' = ncalls + 1
    /\ stack' = <<"build">>
    /\ at' = "build"
    /\ calls' = <<event("build")>>
    /\ ended' = "none"
    /\ UNCHANGED <<converter, self>>

\* lines 253-254: user code calls run(), which calls build() if not built
CallRun ==
    /\ stack = <<>>
    /\ ncalls < MaxCalls
    /\ ncalls' = ncalls + 1
    /\ IF ~self.is_built
       THEN /\ stack' = <<"run", "build">>
            /\ at' = "build"
            /\ calls' = <<event("run"), event("build")>>
       ELSE /\ stack' = <<"run">>
            /\ at' = "check_size"
            /\ calls' = <<event("run")>>
    /\ ended' = "none"
    /\ UNCHANGED <<converter, self>>

\* lines 231 and 238: nothing to build
BuildSkip ==
    /\ at = "build"
    /\ ~not_built(self)
    /\ at' = "setattr"
    /\ UNCHANGED <<converter, self, stack, calls, ncalls, ended>>

\* lines 231-233
CheckDependencies ==
    /\ at = "build"
    /\ not_built(self)
    /\ calls' = Append(calls, event("check_dependencies"))
    /\ \E raises \in BOOLEAN :
           IF raises THEN Raise
           ELSE /\ at' = IF ~has_input_connections(self)
                         THEN "build_input_node" ELSE "build_core_nodes"
                /\ UNCHANGED <<stack, ended>>
    /\ UNCHANGED <<converter, self, ncalls>>

\* line 234: the input node is connected to what reads the data
BuildInputNode ==
    /\ at = "build_input_node"
    /\ calls' = Append(calls, event("build_input_node"))
    /\ \E raises \in BOOLEAN :
           IF raises THEN Raise /\ UNCHANGED self
           ELSE /\ self' = [self EXCEPT !.graph =
                                @ \cup {<<"Reader", self.input_node>> :
                                            n \in {self.input_node} \ {None}}]
                /\ at' = "build_core_nodes"
                /\ UNCHANGED <<stack, ended>>
    /\ UNCHANGED <<converter, ncalls>>

\* lines 235-236
BuildCoreNodes ==
    /\ at = "build_core_nodes"
    /\ calls' = Append(calls, event("build_core_nodes"))
    /\ \E raises \in BOOLEAN, graph \in core_graphs(self) :
       \E built \in {[self EXCEPT !.graph = graph]} :
           /\ self' = built
           /\ IF raises THEN Raise
              ELSE /\ at' = IF ~has_output_connections(built)
                            THEN "build_output_node" ELSE "setattr"
                   /\ UNCHANGED <<stack, ended>>
    /\ UNCHANGED <<converter, ncalls>>

\* line 237: the output node is connected to what writes the data
BuildOutputNode ==
    /\ at = "build_output_node"
    /\ calls' = Append(calls, event("build_output_node"))
    /\ \E raises \in BOOLEAN :
           IF raises THEN Raise /\ UNCHANGED self
           ELSE /\ self' = [self EXCEPT !.graph =
                                @ \cup {<<self.output_node, "Writer">> :
                                            n \in {self.output_node} \ {None}}]
                /\ at' = "setattr"
                /\ UNCHANGED <<stack, ended>>
    /\ UNCHANGED <<converter, ncalls>>

\* lines 71-73 and 238: build has returned, func_wrapper sets is_built and returns
SetAttr ==
    /\ at = "setattr"
    /\ calls' = Append(calls, event("setattr"))
    /\ self' = [self EXCEPT !.is_built = TRUE]
    /\ IF stack = <<"run", "build">>
       THEN stack' = <<"run">> /\ at' = "check_size" /\ UNCHANGED ended
       ELSE stack' = <<>> /\ at' = "idle" /\ ended' = "returned"
    /\ UNCHANGED <<converter, ncalls>>

\* line 255
CheckSize ==
    /\ at = "check_size"
    /\ calls' = Append(calls, event("check_size"))
    /\ \E raises \in BOOLEAN :
           IF raises THEN Raise
           ELSE at' = "Workflow.run" /\ UNCHANGED <<stack, ended>>
    /\ UNCHANGED <<converter, self, ncalls>>

\* line 256
WorkflowRun ==
    /\ at = "Workflow.run"
    /\ calls' = Append(calls, event("Workflow.run"))
    /\ \E raises \in BOOLEAN :
           IF raises THEN Raise
           ELSE stack' = <<>> /\ at' = "idle" /\ ended' = "returned"
    /\ UNCHANGED <<converter, self, ncalls>>

\* user code assigns parameters
SetParameters ==
    /\ stack = <<>>
    /\ ncalls < MaxCalls
    /\ ncalls' = ncalls + 1
    /\ calls' = <<event("parameters")>>
    /\ \E value \in Parameters : self' = parameters_setter(self, value)
    /\ ended' = "returned"
    /\ UNCHANGED <<converter, stack, at>>

\* user code connects the Pipeline to another workflow
Connect ==
    /\ stack = <<>>
    /\ ncalls < MaxCalls
    /\ ncalls' = ncalls + 1
    /\ calls' = <<event("connect")>>
    /\ \E e \in user_edges(self) \ self.graph : self' = [self EXCEPT !.graph = @ \cup {e}]
    /\ ended' = "returned"
    /\ UNCHANGED <<converter, stack, at>>

NextPipeline ==
    \/ CallBuild
    \/ CallRun
    \/ BuildSkip
    \/ CheckDependencies
    \/ BuildInputNode
    \/ BuildCoreNodes
    \/ BuildOutputNode
    \/ SetAttr
    \/ CheckSize
    \/ WorkflowRun
    \/ SetParameters
    \/ Connect

SpecPipeline == InitPipeline /\ [][NextPipeline]_vars

(***************************************************************************)
(* Properties.                                                              *)
(***************************************************************************)
\* the QC row of the visit processed last is selected
Chosen == last \in {"VisitSelect", "VisitNoOriginal", "VisitAppend"}

\* the visit processed last went past the match of the raw acquisition
Selected == last \in {"VisitNoOriginal", "VisitAppend"}

\* the visit processed last had several regular candidates
SeveralCandidates == Chosen /\ Len(pet_qc_visit) > 1 /\ Len(normal_images) > 1

\* the metadata rows of a subject, by their position in PET_META_LIST.csv
RowsOf(subject) == {p \in 1..Len(pet_meta_list) : pet_meta_list[p].Subject = subject}

\* candidate k of the visit processed last has a co-registered averaged image
HasDerivative(k) ==
    \E p \in RowsOf(normal_meta[k].Subject) :
        /\ pet_meta_list[p].Sequence = SeqCoregAvg
        /\ pet_meta_list[p].SeriesID = normal_meta[k].SeriesID

Candidates == 1..Len(normal_images)

\* the series id of the selected candidate
SelectedSeries ==
    LET k == CHOOSE k \in Candidates : normal_images[k] = qc_visit[1]
    IN  normal_meta[k].SeriesID

NoDerivative == SeveralCandidates /\ \A k \in Candidates : ~HasDerivative(k)

\* C1 as stated: when several regular candidates remain and none has a
\* co-registered averaged image, the candidate with the lowest series id is
\* selected
C1_LowestSeries ==
    NoDerivative => \A k \in Candidates : SelectedSeries <= normal_meta[k].SeriesID

\* C1 amended: when several regular candidates remain and none has a
\* co-registered averaged image, the selected candidate is one of the
\* candidates and has the highest series id among them
C1_HighestSeries ==
    NoDerivative =>
        /\ \E k \in Candidates : normal_images[k] = qc_visit[1]
        /\ \A k \in Candidates : SelectedSeries >= normal_meta[k].SeriesID

C1_Witness ==
    /\ NoDerivative
    /\ \E k \in Candidates : normal_meta[k].SeriesID < SelectedSeries

\* C2: when several regular candidates remain and some of them have a
\* co-registered averaged image of their series, the selected candidate has one
\* and its series id is the highest among the candidates that have one
C2_HighestWithDerivative ==
    (SeveralCandidates /\ \E k \in Candidates : HasDerivative(k)) =>
        /\ \E k \in Candidates : normal_images[k] = qc_visit[1] /\ HasDerivative(k)
        /\ \A k \in Candidates : HasDerivative(k) => SelectedSeries >= normal_meta[k].SeriesID

\* three candidates: the one of the highest series has no derivative and is
\* passed over, the one of the lowest series has one and is not reached
C2_Witness ==
    /\ SeveralCandidates
    /\ \E k \in Candidates : ~HasDerivative(k) /\ normal_meta[k].SeriesID > SelectedSeries
    /\ \E k \in Candidates : HasDerivative(k) /\ normal_meta[k].SeriesID < SelectedSeries

\* C3: the written manifest has at most one row for each (Subject_ID, VISCODE)
C3_Cardinality ==
    \A a, b \in 1..Len(images) :
        (images[a].Subject_ID = images[b].Subject_ID /\ images[a].VISCODE = images[b].VISCODE)
            => a = b

\* C4: no gap in the tables makes the run raise an error
C4_NonFatal == pc # "raised"

\* C5: once the known conversion errors are removed, the manifest holds no row
\* of a (subject, visit code) pair of the list
C5_DenyList ==
    pc \in {"locate", "done"} =>
        /\ \A k \in 1..Len(pet_av45_df) :
               <<pet_av45_df[k].Subject_ID, pet_av45_df[k].VISCODE>> \notin conversion_errors
        /\ \A k \in 1..Len(images) :
               <<images[k].Subject_ID, images[k].VISCODE>> \notin conversion_errors

\* a row of the pair ('128_S_2220', 'm48') was resolved and removed
C5_Witness == pc = "done" /\ indices_to_remove # {} /\ Len(images) > 0

\* the sequence of a manifest row holds 'early', whatever the case
IsEarly(sequence) ==
    \E k \in 1..Len(sequence) - 4 :
        /\ sequence[k] \in {"e", "E"}
        /\ sequence[k + 1] \in {"a", "A"}
        /\ sequence[k + 2] \in {"r", "R"}
        /\ sequence[k + 3] \in {"l", "L"}
        /\ sequence[k + 4] \in {"y", "Y"}

\* C6: no row of the manifest has a sequence that holds 'early'
C6_NoEarly ==
    /\ \A k \in 1..Len(pet_av45_df) : ~IsEarly(pet_av45_df[k].Sequence)
    /\ \A k \in 1..Len(images) : ~IsEarly(images[k].Sequence)

\* the QC row of the visit names an early-frame image and the visit still
\* gives a row, taken from another acquisition
C6_Witness ==
    /\ last = "VisitAppend"
    /\ \E p \in 1..Len(pet_meta_list) :
           /\ pet_meta_list[p].ImageID = int(From1(qc_visit[1].LONIUID))
           /\ pet_meta_list[p].Subject = pet_av45_df[Len(pet_av45_df)].Subject_ID
           /\ IsEarly(pet_meta_list[p].Sequence)

\* the first row of the subject of the matched raw acquisition that is a
\* co-registered averaged image of its series; 0 if there is none
Derivative(raw) ==
    LET D == {p \in RowsOf(raw.Subject) :
                 /\ pet_meta_list[p].Sequence = SeqCoregAvg
                 /\ pet_meta_list[p].SeriesID = raw.SeriesID}
    IN  IF D = {} THEN 0 ELSE CHOOSE p \in D : \A q \in D : p <= q

\* C7: the row a visit gives has Original false exactly if the matched raw
\* acquisition has a co-registered averaged image of its series; its Image_ID
\* and Series_ID are then those of that image, otherwise those of the raw
\* acquisition
C7_VariantPreference ==
    last = "VisitAppend" =>
        LET row == pet_av45_df[Len(pet_av45_df)]
            raw == original_pet_meta[1]
            d == Derivative(raw)
            source == IF d = 0 THEN raw ELSE pet_meta_list[d]
        IN  /\ row.Original = (d = 0)
            /\ row.Image_ID = str(source.ImageID)
            /\ row.Series_ID = str(source.SeriesID)

\* a row taken from the derivative, whose image id is not the raw one
C7_Witness ==
    /\ last = "VisitAppend"
    /\ ~pet_av45_df[Len(pet_av45_df)].Original
    /\ pet_av45_df[Len(pet_av45_df)].Image_ID # str(original_pet_meta[1].ImageID)

\* the subject of the visit processed last
SelectedSubject ==
    IF last = "VisitAppend" THEN pet_av45_df[Len(pet_av45_df)].Subject_ID
    ELSE out[Len(out)].subject

\* the rows of the subject that are 'Original', not an early-frame sequence,
\* and have the image id of the selected QC row
ByImageId ==
    {p \in RowsOf(SelectedSubject) :
        /\ pet_meta_list[p].OrigProc = "Original"
        /\ <<"I">> \o str(pet_meta_list[p].ImageID) = qc_visit[1].LONIUID
        /\ ~IsEarly(pet_meta_list[p].Sequence)}

HasAV45(sequence) ==
    \E k \in 1..Len(sequence) - 3 :
        /\ sequence[k] \in {"a", "A"}
        /\ sequence[k + 1] \in {"v", "V"}
        /\ sequence[k + 2] = "4"
        /\ sequence[k + 3] = "5"

\* the rows of the subject that are 'Original', an AV45 sequence that is not
\* an early-frame one, and have the exam date of the selected QC row
ByScanDate ==
    {p \in RowsOf(SelectedSubject) :
        /\ pet_meta_list[p].OrigProc = "Original"
        /\ HasAV45(pet_meta_list[p].Sequence)
        /\ ~IsEarly(pet_meta_list[p].Sequence)
        /\ pet_meta_list[p].ScanDate = qc_visit[1].EXAMDATE}

First(P) == CHOOSE p \in P : \A q \in P : p <= q

\* C8: the raw acquisition matched to the selected QC row is the first row
\* found by image id; if there is none, the first row found by sequence and
\* scan date; if there is none either, the visit gives no row
C8_TwoStepLookup ==
    Selected =>
        IF ByImageId # {}
        THEN last = "VisitAppend" /\ original_pet_meta[1] = pet_meta_list[First(ByImageId)]
        ELSE IF ByScanDate # {}
        THEN last = "VisitAppend" /\ original_pet_meta[1] = pet_meta_list[First(ByScanDate)]
        ELSE /\ last = "VisitNoOriginal"
             /\ \A k \in 1..Len(pet_av45_df) :
                    ~(/\ pet_av45_df[k].Subject_ID = SelectedSubject
                      /\ pet_av45_df[k].VISCODE = qc_visit[1].VISCODE2)

\* the second step decides: the image of the QC row is no raw acquisition and
\* a raw acquisition of the exam date is taken
C8_Witness ==
    /\ last = "VisitAppend"
    /\ ByImageId = {}
    /\ ByScanDate # {}
    /\ original_pet_meta[1].ImageID # int(From1(qc_visit[1].LONIUID))

\* C9: the Image_ID of every manifest row is the image id of a metadata row
\* of the subject of the row
C9_ReferentialIntegrity ==
    /\ \A k \in 1..Len(pet_av45_df) :
           \E p \in RowsOf(pet_av45_df[k].Subject_ID) :
               str(pet_meta_list[p].ImageID) = pet_av45_df[k].Image_ID
    /\ \A k \in 1..Len(images) :
           \E p \in RowsOf(images[k].Subject_ID) :
               str(pet_meta_list[p].ImageID) = images[k].Image_ID

\* a manifest with rows of both subjects is written
C9_Witness ==
    /\ pc = "done"
    /\ \E a, b \in 1..Len(images) : images[a].Subject_ID # images[b].Subject_ID

\* the archive holds no image directory at the place of row k
Unresolved(k) ==
    \E e \in archive :
        /\ e.kind = "nothing"
        /\ e.path = <<source_dir, pet_av45_df[k].Subject_ID, pet_av45_df[k].Sequence>>
        /\ e.dir = <<"I">> \o pet_av45_df[k].Image_ID

\* C10: the run ends with every resolved row in the written manifest, and the
\* rows whose image directory is not in the archive have the empty path
C10_UnresolvedKept ==
    pc = "done" =>
        /\ Len(images) = Len(pet_av45_df)
        /\ \A k \in 1..Len(pet_av45_df) :
               /\ images[k].Subject_ID = pet_av45_df[k].Subject_ID
               /\ images[k].VISCODE = pet_av45_df[k].VISCODE
               /\ images[k].Image_ID = pet_av45_df[k].Image_ID
               /\ Unresolved(k) => images[k].Path = <<>>

\* a written manifest with an unresolved row and a resolved one
C10_Witness ==
    /\ pc = "done"
    /\ \E k \in 1..Len(images) : Unresolved(k) /\ images[k].Path = <<>>
    /\ \E k \in 1..Len(images) : images[k].Path # <<>>

\* C11: av45_pet_paths_to_bids takes no conversion step for a row of the
\* returned dataframe that has the empty path
C11_UnresolvedSkipped ==
    \A k \in 1..Len(converted) : images[k].Path = <<>> => converted[k] = <<>>

\* the key (Subject_ID, VISCODE) of every row of a dataframe
Keys(df) == [k \in 1..Len(df) |-> <<df[k].Subject_ID, df[k].VISCODE>>]

\* the RID of the subjects: the number their identifier ends with
RidOf == [subject \in Subjects |-> int(Last4(subject))]

\* the positions in AV45QC.csv of the passed rows of a subject that are the
\* first of their visit code
FirstOfVisit(subject) ==
    LET Passed(p) == petqc[p].PASS = 1 /\ petqc[p].RID = RidOf[subject]
    IN  {p \in 1..Len(petqc) :
            /\ Passed(p)
            /\ \A q \in 1..(p - 1) : Passed(q) => petqc[q].VISCODE2 # petqc[p].VISCODE2}

\* the keys of the visits of a subject, in the order of these positions
KeysOf(subject) ==
    LET F == FirstOfVisit(subject)
        nth(n) == CHOOSE p \in F : Cardinality({q \in F : q < p}) = n - 1
    IN  [n \in 1..Cardinality(F) |-> <<subject, petqc[nth(n)].VISCODE2>>]

\* the keys of the visits of the first n subjects of subjs_list
RECURSIVE Order(_)
Order(n) == IF n = 0 THEN <<>> ELSE Order(n - 1) \o KeysOf(subjs_list[n])

\* xs is ys with some elements left out
RECURSIVE IsSubSeq(_, _)
IsSubSeq(xs, ys) ==
    IF xs = <<>> THEN TRUE
    ELSE IF ys = <<>> THEN FALSE
    ELSE IF Head(xs) = Head(ys) THEN IsSubSeq(Tail(xs), Tail(ys))
    ELSE IsSubSeq(xs, Tail(ys))

\* C12: the rows of the manifest, after every row added and after the known
\* conversion errors are removed, follow the order of the subjects in
\* subjs_list and, within a subject, the order in which its visit codes first
\* occur among its passed QC rows; the written manifest has the rows in the
\* order of the manifest so assembled
C12_RowOrder ==
    /\ last \in {"VisitAppend", "Exceptions"} =>
           IsSubSeq(Keys(pet_av45_df), Order(Len(subjs_list)))
    /\ pc = "done" => Keys(images) = Keys(pet_av45_df)

\* rows of two subjects, the second with visit 'm48' met before visit 'bl'
C12_Witness ==
    /\ last = "VisitAppend"
    /\ \E k \in 1..(Len(pet_av45_df) - 2) :
           /\ pet_av45_df[k].Subject_ID # pet_av45_df[k + 1].Subject_ID
           /\ pet_av45_df[k + 1].Subject_ID = pet_av45_df[k + 2].Subject_ID
           /\ pet_av45_df[k + 1].VISCODE = "m48"
           /\ pet_av45_df[k + 2].VISCODE = "bl"

NotListed(df) ==
    LET Test(r) == <<r.Subject_ID, r.VISCODE>> \notin conversion_errors
    IN  SelectSeq(df, Test)

\* the columns of the assembled manifest
Assembled(r) ==
    [Subject_ID |-> r.Subject_ID, VISCODE |-> r.VISCODE, Visit |-> r.Visit,
     Sequence |-> r.Sequence, Scan_Date |-> r.Scan_Date, Study_ID |-> r.Study_ID,
     Series_ID |-> r.Series_ID, Image_ID |-> r.Image_ID, Original |-> r.Original]

\* C14: the step that removes the known conversion errors leaves exactly the
\* assembled rows whose (Subject_ID, VISCODE) is not in the list, as they
\* were and in their order; the rows are not touched afterwards, and the
\* written manifest has these rows in these columns
C14_PureFilter ==
    [][/\ (pc = "subject" /\ pc' \in {"locate", "done"}) =>
              pet_av45_df' = NotListed(pet_av45_df)
       /\ pc = "locate" => pet_av45_df' = pet_av45_df
       /\ (pc # "done" /\ pc' = "done") =>
              [k \in 1..Len(images') |-> Assembled(images'[k])] = pet_av45_df']_vars

\* a row of ('128_S_2220', 'm48') is removed and another row of the subject kept
C14_Witness ==
    /\ last = "Exceptions"
    /\ indices_to_remove # {}
    /\ \E k \in 1..Len(pet_av45_df) : pet_av45_df[k].Subject_ID = Subj128

\* the image directory of row k of the written manifest
DirOf(k) ==
    <<source_dir, images[k].Subject_ID, images[k].Sequence, <<"I">> \o images[k].Image_ID>>

\* what the archive holds at the place of row k
KindOf(k) ==
    {e.kind : e \in {e \in archive : <<e.path[1], e.path[2], e.path[3], e.dir>> = DirOf(k)}}

\* the name ends with '.nii'
IsNii(name) == Len(name) >= 4 /\ SubSeq(name, Len(name) - 3, Len(name)) = <<".", "n", "i", "i">>

\* what a directory holds if one of its files has a name that ends with '.nii'
NiiKinds ==
    {kind \in {"dicom", "nifti"} : \E f \in 1..Len(filenames(kind)) : IsNii(filenames(kind)[f])}

\* the names of the files of a directory
FilesOf == [kind \in {"dicom", "nifti"} |-> {filenames(kind)[f] : f \in 1..Len(filenames(kind))}]

\* the directory of row k holds a file whose name ends with '.nii'
HoldsNii(k) == KindOf(k) \cap NiiKinds # {}

\* C15: in the written manifest, a row whose image directory was found and
\* holds a '.nii' file has Is_Dicom false and the path of a '.nii' file of
\* that directory; a row whose image directory was found and holds none has
\* Is_Dicom true and the path of the directory; and Is_Dicom is false exactly
\* for the rows whose path ends with '.nii'
C15_Classification ==
    pc = "done" =>
        \A k \in 1..Len(images) :
            LET path == images[k].Path
            IN  /\ (KindOf(k) # {"nothing"} /\ HoldsNii(k)) =>
                       /\ ~images[k].Is_Dicom
                       /\ Len(path) = 5
                       /\ SubSeq(path, 1, 4) = DirOf(k)
                       /\ IsNii(path[5])
                       /\ \E kind \in KindOf(k) : path[5] \in FilesOf[kind]
                /\ (KindOf(k) # {"nothing"} /\ ~HoldsNii(k)) =>
                       images[k].Is_Dicom /\ path = DirOf(k)
                /\ ~images[k].Is_Dicom <=> (path # <<>> /\ IsNii(path[Len(path)]))

\* a written manifest with a NIfTI row and a DICOM row
C15_Witness ==
    /\ pc = "done"
    /\ \E k \in 1..Len(images) : ~images[k].Is_Dicom /\ HoldsNii(k)
    /\ \E k \in 1..Len(images) : images[k].Is_Dicom /\ images[k].Path = DirOf(k)

\* C18: the row given by a visit with several candidates has the series id of
\* the metadata row of the selected candidate
C18_SeriesCarried ==
    (last = "VisitAppend" /\ SeveralCandidates) =>
        pet_av45_df[Len(pet_av45_df)].Series_ID = str(SelectedSeries)

\* the names of the calls made since the outermost method was entered
Names == [k \in 1..Len(calls) |-> calls[k].name]

\* the steps of build
BuildSteps == {"check_dependencies", "build_input_node", "build_core_nodes", "build_output_node"}

\* the position of the call of build among the calls, 0 if there is none
BuildAt ==
    IF \E k \in 1..Len(calls) : calls[k].name = "build"
    THEN CHOOSE k \in 1..Len(calls) : calls[k].name = "build"
    ELSE 0

C17_NeverUnbuilt ==
    /\ \A k \in 1..Len(calls) :
           calls[k].name = "Workflow.run" =>
               /\ calls[k].is_built
               /\ calls[1].name = "run"
               /\ calls[k - 1].name = "check_size"
               /\ ~calls[1].is_built =>
                      \E a, b, c \in 1..(k - 1) :
                          /\ a < b /\ b < c
                          /\ calls[a].name = "check_dependencies"
                          /\ calls[b].name = "build_core_nodes"
                          /\ calls[c].name = "setattr"
    /\ at = "Workflow.run" => self.is_built /\ calls[Len(calls)].name = "check_size"
    /\ (calls # <<>> /\ calls[Len(calls)].name = "parameters") =>
           /\ ~self.is_built
           /\ self.parameters \in Parameters
           /\ self.graph = {}
           /\ self.input_node = None <=> self.get_input_fields = <<>>
           /\ self.output_node = None <=> self.get_output_fields = <<>>

\* Workflow.run is reached in a run() that found the Pipeline not built,
\* parameters having been assigned
C17_Witness ==
    /\ at = "Workflow.run"
    /\ ~calls[1].is_built
    /\ self.parameters # {}
    /\ ncalls > 2

====
